---- MODULE Spec2Model ----
(***************************************************************************)
(* A model of the joke-generation endpoint api/generate.js: the request    *)
(* handler, the upstream invoker openaiChatWithRetry and the output        *)
(* pipeline extractJSON / processModelOutput.                              *)
(*                                                                         *)
(* Text.  A JavaScript string is modelled as a sequence of tokens.  A      *)
(* token is either one character that the code looks at individually       *)
(* (" ", "\n", ".", "!", "{", ...) or a chunk of characters that the code  *)
(* never looks into (a word, the inside of a catalog ending).  A chunk     *)
(* starts and ends with a letter, so trimming and the trailing-punctuation *)
(* strip act on whole tokens exactly as they act on the characters.  The   *)
(* concatenation of the tokens is the JavaScript string.  Characters       *)
(* outside ASCII are written as "--" (the em dash U+2014), "<hellip>"      *)
(* (U+2026), "<rsquo>" (U+2019) and "<rdquo>" (U+201D); "<fence>" is the   *)
(* three backquotes of a Markdown code fence.                              *)
(* Positions are 1-based; 0 stands for JavaScript's -1 (not found).        *)
(***************************************************************************)
EXTENDS Integers, Sequences, FiniteSets, TLC

(***************************************************************************)
(* Constants of the program                                                *)
(***************************************************************************)

\* const ENDINGS: the six catalog endings, in the order of the source.
ENDINGS ==
    << <<"Shit! I was tel", "ling it the wrong way", ".", ".", ".">>,
       <<"Hmm... wait, wait, that's not the way", ".">>,
       <<"Mmm... it wasn't like that, but it is very funny, I swear", ".">>,
       <<"No -- no, that's not how it goes. Hold on", ".">>,
       <<"Wait. I'm messing it up. This is not how the joke goes", ".">>,
       <<"Hmm... maybe I have it backwards. Sorry, lost it", ".">> >>

\* const keys in processModelOutput: the required keys, in checking order.
keys == <<"joke", "scenario", "roles", "tone", "length", "ending_phrase", "tags">>

\* \s of the regular expressions and of String.prototype.trim.
Space == {" ", "\n", "\t"}

\* The character class [\s.!?..."'...)\]}:;] of the trailing strip.
TailClass ==
    Space \cup {".", "!", "?", "<hellip>", "\"", "'", "<rsquo>", "<rdquo>",
                ")", "]", "}", ":", ";"}

\* The separators ' -- ' and '\n' of the ending placement.
DashSep == <<" ", "--", " ">>
NewlineSep == <<"\n">>

(***************************************************************************)
(* String primitives                                                       *)
(***************************************************************************)

RECURSIVE DropTail(_, _)
\* s.replace(/[C]+$/, ''): s without its longest suffix of characters of C.
DropTail(s, C) ==
    IF s # <<>> /\ s[Len(s)] \in C
    THEN DropTail(SubSeq(s, 1, Len(s) - 1), C)
    ELSE s

RECURSIVE DropHead(_, _)
\* s without its longest prefix of characters of C.
DropHead(s, C) ==
    IF s # <<>> /\ s[1] \in C THEN DropHead(Tail(s), C) ELSE s

\* String.prototype.trim
Trim(s) == DropHead(DropTail(s, Space), Space)

\* s.replace(/\s+$/, '')
TrimEnd(s) == DropTail(s, Space)

\* s.replace(/[\s.!?...]+$/u, '')
StripTail(s) == DropTail(s, TailClass)

\* e occurs in s at position i.
OccursAt(s, e, i) ==
    /\ i >= 1
    /\ i + Len(e) - 1 <= Len(s)
    /\ SubSeq(s, i, i + Len(e) - 1) = e

\* String.prototype.startsWith / endsWith
StartsWith(s, e) == OccursAt(s, e, 1)
EndsWith(s, e) == OccursAt(s, e, Len(s) - Len(e) + 1)

\* The positions at which e occurs in s.
Occurrences(s, e) == {i \in 1..Len(s) : OccursAt(s, e, i)}

\* String.prototype.includes
Includes(s, e) == Occurrences(s, e) # {}

RECURSIVE LastFrom(_, _, _)
\* The last position at or before i at which e occurs in s, 0 when none.
LastFrom(s, e, i) ==
    IF i < 1 THEN 0
    ELSE IF OccursAt(s, e, i) THEN i
    ELSE LastFrom(s, e, i - 1)

\* String.prototype.lastIndexOf (0 when e does not occur).
LastIndexOf(s, e) == LastFrom(s, e, Len(s) - Len(e) + 1)

RECURSIVE SplitJoin(_, _)
\* s.split(e).join(''): one left-to-right pass that deletes the
\* non-overlapping occurrences of e; what the deletions join is not rescanned.
SplitJoin(s, e) ==
    IF s = <<>> THEN <<>>
    ELSE IF StartsWith(s, e) THEN SplitJoin(SubSeq(s, Len(e) + 1, Len(s)), e)
    ELSE <<Head(s)>> \o SplitJoin(Tail(s), e)

(***************************************************************************)
(* Values of the generator's JSON object                                   *)
(*                                                                         *)
(* A JSON value is [t |-> its JavaScript type, v |-> the tokens of         *)
(* String(value)].  An array field is [arr |-> Array.isArray, items].      *)
(* A generator text is [toks, obj]: toks is the text, in which the token   *)
(* "{...}" stands for the serialisation of the object obj.                 *)
(***************************************************************************)

\* JavaScript falsiness of a JSON value (the s||'' of normalizeStr).
Falsy(val) ==
    \/ val.t = "null"
    \/ val.t = "string" /\ val.v = <<>>
    \/ val.t = "number" /\ val.v = <<"0">>
    \/ val.t = "boolean" /\ val.v = <<"false">>

\* function normalizeStr(s){ return (s||'').toString().trim(); }
normalizeStr(val) == IF Falsy(val) THEN <<>> ELSE Trim(val.v)

\* function pickEnding(): r is 1 + Math.floor(Math.random() * ENDINGS.length).
pickEnding(r) == ENDINGS[r]

\* Array.prototype.find over ENDINGS: the index of the first ending whose
\* index is in S, 0 when there is none.
FindEnding(S) ==
    IF S = {} THEN 0 ELSE CHOOSE i \in S : \A k \in S : i <= k

(***************************************************************************)
(* extractJSON                                                             *)
(***************************************************************************)

\* The tokens that start with '{' and the tokens that end with '}'.
OpenBrace == {"{", "{...}"}
CloseBrace == {"}", "{...}"}

\* Where the captured group starts when /<fence>(?:json)?\n/i matches at i; 0
\* when it does not match there.
FenceOpen(s, i) ==
    IF i + 2 <= Len(s) /\ s[i] = "<fence>" /\ s[i+1] \in {"json", "JSON", "Json"}
          /\ s[i+2] = "\n"
    THEN i + 3
    ELSE IF i + 1 <= Len(s) /\ s[i] = "<fence>" /\ s[i+1] = "\n"
    THEN i + 2
    ELSE 0

\* The positions of a "\n<fence>" that can close a group starting at c.
FenceClose(s, c) ==
    {k \in c..(Len(s) - 1) : s[k] = "\n" /\ s[k+1] = "<fence>"}

\* s.match(/<fence>(?:json)?\n([\s\S]*?)\n<fence>/i): the captured group of the
\* leftmost match, the group being as short as possible; <<FALSE, <<>> >>
\* when there is no match.
FenceMatch(s) ==
    LET starts == {i \in 1..Len(s) :
                      FenceOpen(s, i) # 0 /\ FenceClose(s, FenceOpen(s, i)) # {}}
    IN  IF starts = {} THEN <<FALSE, <<>> >>
        ELSE LET i == CHOOSE x \in starts : \A y \in starts : x <= y
                 c == FenceOpen(s, i)
                 k == CHOOSE x \in FenceClose(s, c) :
                         \A y \in FenceClose(s, c) : x <= y
             IN  <<TRUE, SubSeq(s, c, k - 1)>>

\* The slice between the first '{' and the last '}' of s, s itself when
\* there is no such pair.
BraceSlice(s) ==
    LET opens == {i \in 1..Len(s) : s[i] \in OpenBrace}
        closes == {i \in 1..Len(s) : s[i] \in CloseBrace}
    IN  IF opens = {} \/ closes = {} THEN s
        ELSE LET first == CHOOSE x \in opens : \A y \in opens : x <= y
                 last == CHOOSE x \in closes : \A y \in closes : y <= x
             IN  IF last > first \/ (last = first /\ s[first] = "{...}")
                 THEN SubSeq(s, first, last)
                 ELSE s

\* An extractJSON that only trims.
extractJSONTrimOnly(text) == Trim(text)

\* function extractJSON(text)
extractJSON(text) ==
    LET s0 == Trim(text)
        m == FenceMatch(s0)
        s1 == IF StartsWith(s0, <<"<fence>">>) /\ m[1] THEN Trim(m[2]) ELSE s0
        t == Trim(s1)
    IN  IF t # <<>> /\ t[1] \in OpenBrace /\ t[Len(t)] \in CloseBrace
        THEN s1
        ELSE BraceSlice(s1)

\* The tokens that are a complete JSON value: the generator's object, an
\* empty array, null, a number, a chat completion, an empty object, a chat
\* completion whose message content is a number.
JSONValues ==
    {"{...}", "[]", "null", "42", "{completion}", "{}", "{completion:42}"}

\* JSON.parse(text): the value parsed, named by its token; "throw" for a
\* SyntaxError.  JSON allows white space around the value and nothing else.
JSONParse(text) ==
    LET t == Trim(text)
    IN  IF Len(t) = 1 /\ t[1] \in JSONValues THEN t[1] ELSE "throw"

\* typeof value === 'object' && value !== null
IsObject(value) ==
    value \in {"{...}", "[]", "{completion}", "{}", "{completion:42}"}

(***************************************************************************)
(* processModelOutput                                                      *)
(***************************************************************************)

RECURSIVE StripFrom(_, _)
\* The loop of stripAllEndingsFrom from the i-th ending on.
StripFrom(out, i) ==
    IF i > Len(ENDINGS) THEN out
    ELSE StripFrom(SplitJoin(out, ENDINGS[i]), i + 1)

\* function stripAllEndingsFrom(text)
stripAllEndingsFrom(text) == StripFrom(text, 1)

\* The artifact of a failed result (no obj).
NoArtifact ==
    [joke |-> <<>>, scenario |-> "", roles |-> [arr |-> FALSE, items |-> <<>>],
     tone |-> "", length |-> "", ending_phrase |-> <<>>,
     tags |-> [arr |-> FALSE, items |-> <<>>]]

\* return { ok:false, error }
Failure(error) == [ok |-> FALSE, error |-> error, obj |-> NoArtifact]

\* ENDINGS.find(e => normalizeStr(e) === ending)
foundAllowed(ending) ==
    FindEnding({i \in 1..Len(ENDINGS) :
                   normalizeStr([t |-> "string", v |-> ENDINGS[i]]) = ending})

\* ENDINGS.find(e => obj.joke.trim().endsWith(e))
tailEnding(joke) ==
    FindEnding({i \in 1..Len(ENDINGS) : EndsWith(Trim(joke), ENDINGS[i])})

\* Whether the ending selection calls pickEnding().
NeedsRandom(tone, ending_phrase, joke) ==
    /\ tone # "Zizek"
    /\ foundAllowed(normalizeStr(ending_phrase)) = 0
    /\ tailEnding(joke) = 0

\* An ending selection that trusts the generator's ending_phrase.
selectEndingTrusting(tone, ending_phrase, joke, r) ==
    IF tone = "Zizek" THEN ENDINGS[1] ELSE normalizeStr(ending_phrase)

\* An ending selection without the forced ending of the Zizek tone.
selectEndingNoOverride(tone, ending_phrase, joke, r) ==
    LET ending == normalizeStr(ending_phrase)
    IN  IF foundAllowed(ending) # 0 THEN ending
        ELSE IF tailEnding(joke) # 0 THEN ENDINGS[tailEnding(joke)]
        ELSE pickEnding(r)

\* An ending selection that looks at the joke's tail before the claim.
selectEndingTailFirst(tone, ending_phrase, joke, r) ==
    LET ending == normalizeStr(ending_phrase)
    IN  IF tone = "Zizek" THEN ENDINGS[1]
        ELSE IF tailEnding(joke) # 0 THEN ENDINGS[tailEnding(joke)]
        ELSE IF foundAllowed(ending) # 0 THEN ending
        ELSE pickEnding(r)

\* An ending selection that draws at random without looking at the joke's
\* tail.
selectEndingIgnoringTail(tone, ending_phrase, joke, r) ==
    LET ending == normalizeStr(ending_phrase)
    IN  IF tone = "Zizek" THEN ENDINGS[1]
        ELSE IF foundAllowed(ending) # 0 THEN ending
        ELSE pickEnding(r)

\* The ending selection of processModelOutput; tone is obj.tone after the
\* coercion, r the random index pickEnding() draws when it is called.
selectEnding(tone, ending_phrase, joke, r) ==
    LET ending == normalizeStr(ending_phrase)
    IN  IF tone = "Zizek" THEN ENDINGS[1]
        ELSE IF foundAllowed(ending) # 0 THEN ending
        ELSE IF tailEnding(joke) # 0 THEN ENDINGS[tailEnding(joke)]
        ELSE pickEnding(r)

\* head.includes('\n') && !head.endsWith('\n') ? '\n'
\*    : (head.endsWith('\n') ? '' : ' -- ')
separator(head) ==
    IF Includes(head, <<"\n">>) /\ ~EndsWith(head, <<"\n">>) THEN NewlineSep
    ELSE IF EndsWith(head, <<"\n">>) THEN <<>>
    ELSE DashSep

\* The ending placement of processModelOutput: the new joke text.
placeEnding(joke, ending) ==
    LET j == TrimEnd(joke)
        idx == LastIndexOf(j, ending)
    IN  IF idx = 0
        THEN StripTail(j) \o DashSep \o ending
        ELSE LET head == StripTail(stripAllEndingsFrom(SubSeq(j, 1, idx - 1)))
             IN  head \o separator(head) \o ending

\* The keys of the parsed value: those of the generator's object, none for
\* the other values.
KeysOf(value, obj) == IF value = "{...}" THEN obj.has ELSE {}

\* function processModelOutput(text, params), text being [toks, obj].
processModelOutput(text, params, r) ==
    LET value == JSONParse(extractJSON(text.toks))
        obj == text.obj
        missing == {i \in 1..Len(keys) : keys[i] \notin KeysOf(value, obj)}
    IN  IF value = "throw" THEN Failure(<<"Model did not return valid JSON">>)
        ELSE IF ~IsObject(value) THEN Failure(<<"Invalid JSON object">>)
        ELSE IF missing # {}
        THEN Failure(<<"Missing key: ",
                       keys[CHOOSE i \in missing : \A k \in missing : i <= k]>>)
        ELSE IF obj.joke.t # "string" \/ Trim(obj.joke.v) = <<>>
        THEN Failure(<<"empty joke">>)
        ELSE IF ~obj.roles.arr \/ Len(obj.roles.items) < 1
                \/ Len(obj.roles.items) > 2
        THEN Failure(<<"roles must be array(1-2)">>)
        ELSE LET ending == selectEnding(params.tone, obj.ending_phrase,
                                        obj.joke.v, r)
             IN  [ok |-> TRUE, error |-> <<>>,
                  obj |-> [joke |-> placeEnding(obj.joke.v, ending),
                           scenario |-> params.scenario,
                           roles |-> params.roles,
                           tone |-> params.tone,
                           length |-> params.length,
                           ending_phrase |-> ending,
                           tags |-> IF obj.tags.arr THEN obj.tags
                                    ELSE [arr |-> TRUE, items |-> <<>>]]]

(***************************************************************************)
(* State                                                                   *)
(***************************************************************************)

VARIABLES
    req,        \* the request as it arrived: [method, params]
    params,     \* the params object of the request (validateParams writes it)
    env,        \* process.env: [USE_STUB, OPENAI_API_KEY]
    gen,        \* the text the generator answers with: [toks, obj]
    hpc,        \* where handler is: "recv", "await" (openaiChatWithRetry), "sent"
    res,        \* the responses sent on res, in order
    processed,  \* the last result of processModelOutput
    retries,    \* openaiChatWithRetry: the retries argument
    attempt,    \* the loop variable
    rpc,        \* "idle", "loop", "fetch", "body", "sleep", "done"
    timers,     \* the attempts whose timeout timer is armed
    inflight,   \* the attempts whose network call is in flight
    rstatus,    \* r.status once the response headers have arrived (0 before)
    ret,        \* the value returned
    calls,      \* how many times fetch was called
    obs,        \* how each ended attempt ended: [kind, status]
    lastText,   \* the body, or the error message, of the last ended attempt
    backend,    \* what the backend may do: "healthy" (200 with a completion,
                \* in time) or "any"
    delays,     \* the arguments of the sleep() calls, in order
    aborts,     \* <<a, c>>: the timer of attempt a aborted the call of attempt c
    work        \* a text function applied on its own: [fn, text, ending,
                \* payload, outs], outs being the results so far

hvars == <<req, params, env, gen, hpc, res, processed, work>>
rvars == <<retries, attempt, rpc, timers, inflight, rstatus, ret, calls, obs,
           lastText, backend, delays, aborts>>
vars == <<req, params, env, gen, hpc, res, processed, retries, attempt, rpc,
          timers, inflight, rstatus, ret, calls, obs, lastText, backend,
          delays, aborts, work>>

(***************************************************************************)
(* openaiChatWithRetry                                                     *)
(***************************************************************************)

\* sleep(300 * (attempt + 1)): the base of the backoff, in milliseconds.
BackoffBase == 300

\* r.ok
Ok(status) == status >= 200 /\ status <= 299

\* r.status === 429 || (r.status >= 500 && r.status <= 504)
RetryStatus(status) == status = 429 \/ (status >= 500 /\ status <= 504)

\* A loop test that lets one attempt too many through.
LoopTestOffByOne(a, n) == a <= n + 1

\* attempt <= retries, the test of the for loop.
LoopTest(a, n) == a <= n

\* No value returned yet.
NoReturn == [ok |-> FALSE, status |-> 0, body |-> <<>>, json |-> ""]

\* return { ok: false, status, body }
Failed(status, body) ==
    [ok |-> FALSE, status |-> status, body |-> body, json |-> ""]

\* return { ok: true, status: 200, json }
Succeeded(json) == [ok |-> TRUE, status |-> 200, body |-> <<>>, json |-> json]

\* err?.message || 'Network error'
ErrorMessage(msg) == IF msg = <<>> THEN <<"Network error">> ELSE msg

\* A clearTimeout that is forgotten: the timer stays armed.
clearTimeoutForgotten(armed, a) == armed

\* clearTimeout(to), to being the timer of attempt a.
clearTimeout(armed, a) == armed \ {a}

\* The controller whose abort() the timer of attempt a calls: the one
\* created in the same iteration.
ControllerOf(a) == a

\* await sleep(300 * (attempt + 1)); continue
Sleep ==
    /\ rpc' = "sleep"
    /\ delays' = Append(delays, BackoffBase * (attempt + 1))
    /\ ret' = ret

\* return value
Return(value) ==
    /\ rpc' = "done"
    /\ ret' = value
    /\ delays' = delays

\* The loop test passes: a controller, its timer, and fetch is called.
StartAttempt ==
    /\ rpc = "loop"
    /\ LoopTest(attempt, retries)
    /\ timers' = timers \cup {attempt}
    /\ inflight' = inflight \cup {attempt}
    /\ calls' = calls + 1
    /\ rstatus' = 0
    /\ rpc' = "fetch"
    /\ UNCHANGED <<hvars, retries, attempt, ret, obs, lastText, backend,
                   delays, aborts>>

\* The loop test fails: return { ok: false, status: 504, body: 'Exhausted retries' }
Exhausted ==
    /\ rpc = "loop"
    /\ ~LoopTest(attempt, retries)
    /\ Return(Failed(504, <<"Exhausted retries">>))
    /\ UNCHANGED <<hvars, retries, attempt, timers, inflight, rstatus, calls,
                   obs, lastText, backend, aborts>>

\* fetch resolves with the response headers: clearTimeout(to), then
\* r.text() is awaited.
FetchResponds(status) ==
    /\ rpc = "fetch"
    /\ backend = "healthy" => status = 200
    /\ timers' = clearTimeout(timers, attempt)
    /\ rstatus' = status
    /\ rpc' = "body"
    /\ UNCHANGED <<hvars, retries, attempt, inflight, ret, calls, obs,
                   lastText, backend, delays, aborts>>

\* A try block that treats a 2xx body that is no JSON as a retryable
\* failure.
BodyArrivesRetryingNonJSON(text) ==
    /\ rpc = "body"
    /\ backend = "healthy" => text = <<"{completion}">>
    /\ inflight' = inflight \ {attempt}
    /\ obs' = Append(obs, [kind |-> "http", status |-> rstatus])
    /\ lastText' = text
    /\ IF ~Ok(rstatus)
       THEN IF RetryStatus(rstatus) /\ attempt < retries
            THEN Sleep
            ELSE Return(Failed(rstatus, text))
       ELSE IF JSONParse(text) = "throw"
            THEN IF attempt < retries
                 THEN Sleep
                 ELSE Return(Failed(502, <<"Non-JSON upstream body">>))
            ELSE Return(Succeeded(JSONParse(text)))
    /\ UNCHANGED <<hvars, retries, attempt, timers, rstatus, calls, backend,
                   aborts>>

\* r.text() resolves with the body: the rest of the try block.
BodyArrives(text) ==
    /\ rpc = "body"
    /\ backend = "healthy" => text = <<"{completion}">>
    /\ inflight' = inflight \ {attempt}
    /\ obs' = Append(obs, [kind |-> "http", status |-> rstatus])
    /\ lastText' = text
    /\ IF ~Ok(rstatus)
       THEN IF RetryStatus(rstatus) /\ attempt < retries
            THEN Sleep
            ELSE Return(Failed(rstatus, text))
       ELSE IF JSONParse(text) = "throw"
            THEN Return(Failed(502, <<"Non-JSON upstream body">>))
            ELSE Return(Succeeded(JSONParse(text)))
    /\ UNCHANGED <<hvars, retries, attempt, timers, rstatus, calls, backend,
                   aborts>>

\* The catch block, isAbort telling whether err.name is 'AbortError'.
Catch(isAbort, msg) ==
    IF isAbort \/ attempt < retries
    THEN Sleep
    ELSE Return(Failed(504, IF isAbort THEN <<"Upstream timeout">>
                            ELSE ErrorMessage(msg)))

\* fetch or r.text() rejects with a network error of message msg.
NetworkError(msg) ==
    /\ rpc \in {"fetch", "body"}
    /\ backend = "any"
    /\ inflight' = inflight \ {attempt}
    /\ timers' = clearTimeout(timers, attempt)
    /\ obs' = Append(obs, [kind |-> "neterr", status |-> 0])
    /\ lastText' = msg
    /\ Catch(FALSE, msg)
    /\ UNCHANGED <<hvars, retries, attempt, rstatus, calls, backend, aborts>>

\* The timer of attempt a fires: its controller aborts; the call that
\* listens to this controller, if it is still in flight, rejects with an
\* AbortError, and the catch block runs if the function awaits that call.
TimerFires(a) ==
    /\ a \in timers
    /\ backend = "any"
    /\ LET c == ControllerOf(a)
           hit == c \in inflight /\ c = attempt /\ rpc \in {"fetch", "body"}
       IN  /\ inflight' = inflight \ {c}
           /\ aborts' = IF c \in inflight THEN aborts \cup {<<a, c>>} ELSE aborts
           /\ IF hit
              THEN /\ timers' = clearTimeout(timers \ {a}, attempt)
                   /\ obs' = Append(obs, [kind |-> "timeout", status |-> 0])
                   /\ lastText' = <<>>
                   /\ Catch(TRUE, <<>>)
              ELSE /\ timers' = timers \ {a}
                   /\ UNCHANGED <<obs, lastText, rpc, ret, delays>>
    /\ UNCHANGED <<hvars, retries, attempt, rstatus, calls, backend>>

\* The sleep ends: continue, attempt++.
SleepDone ==
    /\ rpc = "sleep"
    /\ attempt' = attempt + 1
    /\ rpc' = "loop"
    /\ UNCHANGED <<hvars, retries, timers, inflight, rstatus, ret, calls, obs,
                   lastText, backend, delays, aborts>>

(***************************************************************************)
(* handler                                                                 *)
(***************************************************************************)

\* retries: 2 in handler's call of openaiChatWithRetry.
HandlerRetries == 2

\* A validateParams that does not default the length.
validateParamsNoDefault(p) ==
    IF ~p.present THEN [err |-> "Missing params", p |-> p]
    ELSE IF p.scenario = "" THEN [err |-> "Missing scenario", p |-> p]
    ELSE IF ~p.roles.arr \/ Len(p.roles.items) < 1 \/ Len(p.roles.items) > 2
    THEN [err |-> "Roles must be 1-2", p |-> p]
    ELSE IF p.tone = "" THEN [err |-> "Missing tone", p |-> p]
    ELSE [err |-> "", p |-> p]

\* A validateParams that looks at the tone before the scenario.
validateParamsToneFirst(p) ==
    IF ~p.present THEN [err |-> "Missing params", p |-> p]
    ELSE IF p.tone = "" THEN [err |-> "Missing tone", p |-> p]
    ELSE IF p.scenario = "" THEN [err |-> "Missing scenario", p |-> p]
    ELSE IF ~p.roles.arr \/ Len(p.roles.items) < 1 \/ Len(p.roles.items) > 2
    THEN [err |-> "Roles must be 1-2", p |-> p]
    ELSE IF p.length = "" THEN [err |-> "", p |-> [p EXCEPT !.length = "medium"]]
    ELSE [err |-> "", p |-> p]

\* function validateParams(p): [err |-> the message ("" for null),
\* p |-> the object afterwards].  A missing or empty field is "".
validateParams(p) ==
    IF ~p.present THEN [err |-> "Missing params", p |-> p]
    ELSE IF p.scenario = "" THEN [err |-> "Missing scenario", p |-> p]
    ELSE IF ~p.roles.arr \/ Len(p.roles.items) < 1 \/ Len(p.roles.items) > 2
    THEN [err |-> "Roles must be 1-2", p |-> p]
    ELSE IF p.tone = "" THEN [err |-> "Missing tone", p |-> p]
    ELSE IF p.length = "" THEN [err |-> "", p |-> [p EXCEPT !.length = "medium"]]
    ELSE [err |-> "", p |-> p]

\* String.prototype.toLowerCase on the tone names.
toLowerCase(tone) ==
    CASE tone = "Dry" -> "dry"
      [] tone = "Zizek" -> "zizek"
      [] OTHER -> tone

RECURSIVE join(_, _)
\* Array.prototype.join
join(items, sep) ==
    IF items = <<>> THEN <<>>
    ELSE IF Len(items) = 1 THEN <<items[1]>>
    ELSE <<items[1]>> \o sep \o join(Tail(items), sep)

\* A stub object whose joke stops before the ending.
stubWithoutEnding(p, ending) ==
    [joke |-> join(p.roles.items, <<" ", "&", " ">>)
              \o <<" ", "at the", " ", p.scenario, " ", "try a", " ",
                   toLowerCase(p.tone), " ", "bit", ".", ".", ".">>,
     scenario |-> p.scenario,
     roles |-> p.roles,
     tone |-> p.tone,
     length |-> IF p.length = "" THEN "medium" ELSE p.length,
     ending_phrase |-> ending,
     tags |-> [arr |-> TRUE, items |-> <<"debug", "stub">>]]

\* The stub object of the stub mode, ending being pickEnding().
stub(p, ending) ==
    [joke |-> join(p.roles.items, <<" ", "&", " ">>)
              \o <<" ", "at the", " ", p.scenario, " ", "try a", " ",
                   toLowerCase(p.tone), " ", "bit", ".", ".", ".">>
              \o DashSep \o ending,
     scenario |-> p.scenario,
     roles |-> p.roles,
     tone |-> p.tone,
     length |-> IF p.length = "" THEN "medium" ELSE p.length,
     ending_phrase |-> ending,
     tags |-> [arr |-> TRUE, items |-> <<"debug", "stub">>]]

\* A response: the status and the JSON body; has names the keys of the body.
ErrorBody(status, error) ==
    [status |-> status,
     body |-> [has |-> {"error"}, error |-> error, detail |-> <<>>, status |-> 0,
               raw |-> <<>>, artifact |-> NoArtifact]]

\* An upstream failure response that always answers 502.
UpstreamBodyGateway(status, detail) ==
    [status |-> 502,
     body |-> [has |-> {"error", "detail", "status"},
               error |-> <<"Upstream error">>, detail |-> detail,
               status |-> 502, raw |-> <<>>, artifact |-> NoArtifact]]

UpstreamBody(status, detail) ==
    [status |-> status,
     body |-> [has |-> {"error", "detail", "status"},
               error |-> <<"Upstream error">>, detail |-> detail,
               status |-> status, raw |-> <<>>, artifact |-> NoArtifact]]

\* A 422 response that leaves the raw text out.
ContractBodyNoRaw(error, raw) ==
    [status |-> 422,
     body |-> [has |-> {"error"}, error |-> error, detail |-> <<>>,
               status |-> 0, raw |-> <<>>, artifact |-> NoArtifact]]

ContractBody(error, raw) ==
    [status |-> 422,
     body |-> [has |-> {"error", "raw"}, error |-> error, detail |-> <<>>,
               status |-> 0, raw |-> raw, artifact |-> NoArtifact]]

\* A 200 response that carries the joke alone.
ArtifactBodyBare(artifact) ==
    [status |-> 200,
     body |-> [has |-> {"joke"},
               error |-> <<>>, detail |-> <<>>, status |-> 0, raw |-> <<>>,
               artifact |-> artifact]]

ArtifactBody(artifact) ==
    [status |-> 200,
     body |-> [has |-> {"joke", "scenario", "roles", "tone", "length",
                        "ending_phrase", "tags"},
               error |-> <<>>, detail |-> <<>>, status |-> 0, raw |-> <<>>,
               artifact |-> artifact]]

\* No result of processModelOutput yet.
NoResult == [ok |-> FALSE, error |-> <<>>, obj |-> NoArtifact]

\* data?.choices?.[0]?.message?.content?.trim() || '': the completion
\* carries the generator's text, the other JSON values carry none.
contentOf(json) ==
    IF json = "{completion}" THEN [toks |-> Trim(gen.toks), obj |-> gen.obj]
    ELSE [toks |-> <<>>, obj |-> gen.obj]

\* data?.choices?.[0]?.message?.content?.trim() throws a TypeError: the
\* content is there and is no string.
contentThrows(json) == json = "{completion:42}"

\* handler, from its entry to the first await or to the response.
HandlerStart ==
    /\ hpc = "recv"
    /\ IF req.method # "POST"
       THEN /\ res' = Append(res, ErrorBody(405, <<"Method Not Allowed">>))
            /\ hpc' = "sent"
            /\ UNCHANGED <<params, rpc, retries, attempt>>
       ELSE LET v == validateParams(params)
            IN  /\ params' = v.p
                /\ IF v.err # ""
                   THEN /\ res' = Append(res, ErrorBody(400, <<v.err>>))
                        /\ hpc' = "sent"
                        /\ UNCHANGED <<rpc, retries, attempt>>
                   ELSE IF env.USE_STUB = "1"
                   THEN /\ \E r \in 1..Len(ENDINGS) :
                             res' = Append(res,
                                       ArtifactBody(stub(v.p, pickEnding(r))))
                        /\ hpc' = "sent"
                        /\ UNCHANGED <<rpc, retries, attempt>>
                   ELSE IF env.OPENAI_API_KEY = ""
                   THEN /\ res' = Append(res,
                                    ErrorBody(500, <<"Missing OPENAI_API_KEY">>))
                        /\ hpc' = "sent"
                        /\ UNCHANGED <<rpc, retries, attempt>>
                   ELSE /\ hpc' = "await"
                        /\ rpc' = "loop"
                        /\ retries' = HandlerRetries
                        /\ attempt' = 0
                        /\ res' = res
    /\ UNCHANGED <<req, env, gen, processed, timers, inflight, rstatus, ret,
                   calls, obs, lastText, backend, delays, aborts, work>>

\* The values Math.random() can make pickEnding() return an index of, when
\* processModelOutput calls it; one value when it does not.
RandomDraws(text, p) ==
    IF NeedsRandom(p.tone, text.obj.ending_phrase, text.obj.joke.v)
    THEN 1..Len(ENDINGS)
    ELSE {1}

\* handler, from the return of openaiChatWithRetry to the response.
HandlerFinish ==
    /\ hpc = "await"
    /\ rpc = "done"
    /\ hpc' = "sent"
    /\ IF ~ret.ok
       THEN /\ res' = Append(res,
                        UpstreamBody(IF ret.status = 0 THEN 502 ELSE ret.status,
                                     IF ret.body = <<>>
                                     THEN <<"No response body">> ELSE ret.body))
            /\ processed' = processed
       ELSE IF contentThrows(ret.json)
       THEN /\ res' = Append(res, ErrorBody(500, <<"trim is not a function">>))
            /\ processed' = processed
       ELSE \E r \in RandomDraws(contentOf(ret.json), params) :
               LET text == contentOf(ret.json)
                   result == processModelOutput(text, params, r)
               IN  /\ processed' = result
                   /\ res' = Append(res,
                               IF result.ok THEN ArtifactBody(result.obj)
                               ELSE ContractBody(result.error, text.toks))
    /\ UNCHANGED <<req, params, env, gen, rvars, work>>

(***************************************************************************)
(* Inputs                                                                  *)
(***************************************************************************)

\* The largest retries argument tried.
MaxRetries == 3

\* The statuses the backend answers with.
Statuses == {200, 404, 429, 500, 504, 505, 599}

\* The response bodies the backend sends.
Bodies ==
    { <<>>, <<"{completion}">>, <<" ", "{completion}", "\n">>, <<"{}">>,
      <<"{completion:42}">>, <<"<html>">> }

\* The messages of the network errors.
Messages == { <<>>, <<"fetch failed">> }

\* A request that passes validateParams, and what the generator makes of it.
BaseParams ==
    [present |-> TRUE, scenario |-> "Queue",
     roles |-> [arr |-> TRUE, items |-> <<"Visitor">>],
     tone |-> "Dry", length |-> "short"]

AllKeys == {keys[i] : i \in 1..Len(keys)}

BaseObj ==
    [has |-> AllKeys,
     joke |-> [t |-> "string", v |-> <<"a", ".", " ">> \o ENDINGS[2]],
     scenario |-> "Queue",
     roles |-> [arr |-> TRUE, items |-> <<"Visitor">>],
     tone |-> "Dry", length |-> "short",
     ending_phrase |-> [t |-> "string", v |-> ENDINGS[2]],
     tags |-> [arr |-> TRUE, items |-> <<"museum">>]]

BaseGen == [toks |-> <<"{...}">>, obj |-> BaseObj]

BaseEnv == [USE_STUB |-> "", OPENAI_API_KEY |-> "sk"]

\* No text function is applied on its own.
NoWork == [fn |-> "", text |-> <<>>, ending |-> <<>>, payload |-> <<>>,
           outs |-> <<>>]

\* handler has not been entered / openaiChatWithRetry has not been called.
HandlerIdle ==
    /\ res = <<>>
    /\ processed = NoResult
    /\ work = NoWork

InvokerIdle ==
    /\ attempt = 0
    /\ timers = {}
    /\ inflight = {}
    /\ rstatus = 0
    /\ ret = NoReturn
    /\ calls = 0
    /\ obs = <<>>
    /\ lastText = <<>>
    /\ delays = <<>>
    /\ aborts = {}

(***************************************************************************)
(* openaiChatWithRetry alone: called with any retries, against any backend *)
(***************************************************************************)

InitRetry ==
    /\ req = [method |-> "POST", params |-> BaseParams]
    /\ params = BaseParams
    /\ env = BaseEnv
    /\ gen = BaseGen
    /\ hpc = "await"
    /\ HandlerIdle
    /\ retries \in 0..MaxRetries
    /\ rpc = "loop"
    /\ backend = "any"
    /\ InvokerIdle

NextRetry ==
    \/ StartAttempt
    \/ Exhausted
    \/ \E status \in Statuses : FetchResponds(status)
    \/ \E text \in Bodies : BodyArrives(text)
    \/ \E msg \in Messages : NetworkError(msg)
    \/ \E a \in timers : TimerFires(a)
    \/ SleepDone

SpecRetry == InitRetry /\ [][NextRetry]_vars

\* The event loop runs what is ready: the loop goes on, an armed timer
\* fires, a sleep ends.  The backend owes nothing.
SpecRetryFair ==
    /\ SpecRetry
    /\ WF_vars(StartAttempt)
    /\ WF_vars(Exhausted)
    /\ WF_vars(\E a \in timers : TimerFires(a))
    /\ WF_vars(SleepDone)

(***************************************************************************)
(* processModelOutput alone: the upstream call has succeeded and handler   *)
(* passes the generator's text on                                          *)
(***************************************************************************)

\* The largest number of pieces a generated joke is put together from.
MaxPieces == 4

\* What the generator puts a joke together from: a word, a full stop, a
\* line break, the first two catalog endings and the two halves of the
\* first one.
Pieces ==
    { <<"a">>, <<".">>, <<"\n">>, ENDINGS[1], ENDINGS[2],
      <<"Shit! I was tel">>, <<"ling it the wrong way", ".", ".", ".">> }

RECURSIVE TextsOf(_)
\* The texts of at most n pieces.
TextsOf(n) ==
    IF n = 0 THEN { <<>> }
    ELSE LET T == TextsOf(n - 1)
         IN  T \cup {t \o p : t \in T, p \in Pieces}

\* The joke texts: up to MaxPieces pieces, then the first catalog ending or
\* nothing.
Jokes == {t \o e : t \in TextsOf(MaxPieces), e \in { <<>>, ENDINGS[1] }}

\* The ending_phrase values: a catalog entry, a catalog entry padded with
\* white space, a string outside the catalog, a number.
Claimed ==
    { [t |-> "string", v |-> ENDINGS[1]],
      [t |-> "string", v |-> <<" ">> \o ENDINGS[2] \o <<"\n">>],
      [t |-> "string", v |-> <<"Oops">>],
      [t |-> "number", v |-> <<"42">>] }

Tones == {"Dry", "Zizek"}

\* openaiChatWithRetry has returned a completion at its first attempt.
InvokerSucceeded ==
    /\ retries = HandlerRetries
    /\ attempt = 0
    /\ rpc = "done"
    /\ timers = {}
    /\ inflight = {}
    /\ rstatus = 200
    /\ ret = Succeeded("{completion}")
    /\ calls = 1
    /\ obs = <<[kind |-> "http", status |-> 200]>>
    /\ lastText = <<"{completion}">>
    /\ backend = "healthy"
    /\ delays = <<>>
    /\ aborts = {}

InitOutput ==
    /\ \E tone \in Tones :
          /\ req = [method |-> "POST", params |-> [BaseParams EXCEPT !.tone = tone]]
          /\ params = validateParams(req.params).p
    /\ env = BaseEnv
    /\ \E joke \in Jokes, ending_phrase \in Claimed :
          gen = [toks |-> <<"{...}">>,
                 obj |-> [BaseObj EXCEPT !.joke = [t |-> "string", v |-> joke],
                                         !.ending_phrase = ending_phrase]]
    /\ hpc = "await"
    /\ HandlerIdle
    /\ InvokerSucceeded

NextOutput == HandlerFinish

SpecOutput == InitOutput /\ [][NextOutput]_vars

(***************************************************************************)
(* handler, from the arrival of a request to the response                  *)
(***************************************************************************)

\* The params objects that arrive: none, or every combination of a missing
\* or present scenario, of roles that are no array or have 0 to 3 elements,
\* of a missing or present tone and of a missing or present length.
ParamsInputs ==
    { [BaseParams EXCEPT !.present = FALSE] } \cup
    { [present |-> TRUE, scenario |-> sc, roles |-> ro, tone |-> to,
       length |-> le] :
         sc \in {"", "Queue"},
         ro \in { [arr |-> FALSE, items |-> <<>>],
                  [arr |-> TRUE, items |-> <<>>],
                  [arr |-> TRUE, items |-> <<"Visitor">>],
                  [arr |-> TRUE, items |-> <<"Visitor", "Guard">>],
                  [arr |-> TRUE, items |-> <<"Visitor", "Guard", "Dog">>] },
         to \in {""} \cup Tones,
         le \in {"", "short"} }

\* The params objects that pass validateParams.
ValidParams == {p \in ParamsInputs : validateParams(p).err = ""}

Envs == [USE_STUB : {"", "1"}, OPENAI_API_KEY : {"", "sk"}]

\* The generator echoes the request, or something else.
Echoes ==
    { [scenario |-> "Queue", roles |-> [arr |-> TRUE, items |-> <<"Visitor">>],
       tone |-> "Dry", length |-> "short"],
      [scenario |-> "Archive",
       roles |-> [arr |-> TRUE, items |-> <<"Artist", "Critic">>],
       tone |-> "Zizek", length |-> "long"] }

\* The objects with a sound shape: a short joke, any ending_phrase, any echo.
SoundObjs ==
    { [BaseObj EXCEPT !.joke = [t |-> "string", v |-> joke],
                      !.ending_phrase = ending_phrase,
                      !.scenario = echo.scenario, !.roles = echo.roles,
                      !.tone = echo.tone, !.length = echo.length] :
         joke \in { <<"a", ".">>, <<"a", "\n", "a", ".">>,
                    <<"a", " ">> \o ENDINGS[2],
                    ENDINGS[2] \o <<" ", "a", " ">> \o ENDINGS[1] },
         ending_phrase \in Claimed \cup { [t |-> "null", v |-> <<"null">>] },
         echo \in Echoes }

\* The objects that break the contract, and one whose tags are no array.
OddObjs ==
    { [BaseObj EXCEPT !.has = AllKeys \ {k}] :
         k \in {"joke", "ending_phrase", "tags"} } \cup
    { [BaseObj EXCEPT !.joke = j] :
         j \in { [t |-> "number", v |-> <<"42">>],
                 [t |-> "string", v |-> <<" ", "\n">>] } } \cup
    { [BaseObj EXCEPT !.roles = ro] :
         ro \in { [arr |-> FALSE, items |-> <<>>],
                  [arr |-> TRUE, items |-> <<>>],
                  [arr |-> TRUE, items |-> <<"Visitor", "Guard", "Dog">>] } } \cup
    { [BaseObj EXCEPT !.tags = [arr |-> FALSE, items |-> <<>>]] }

\* The texts around the object: clean, padded, fenced, wrapped in prose; and
\* texts without an object.
TextInputs ==
    { <<"{...}">>,
      <<" ", "{...}", "\n">>,
      <<"<fence>", "json", "\n", "{...}", "\n", "<fence>">>,
      <<"<fence>", "\n", "{...}", "\n", "<fence>">>,
      <<"Sure", ":", " ", "{...}", " ", "Enjoy", "!">>,
      <<"Sorry", ".">>, <<"[]">>, <<"null">>, <<"42">>, <<>> }

GenInputs ==
    { [toks |-> <<"{...}">>, obj |-> o] : o \in SoundObjs \cup OddObjs } \cup
    { [toks |-> t, obj |-> BaseObj] : t \in TextInputs }

\* Any request with the base generator text; a valid request with any
\* generator text; the base request against any backend.
InitHandler ==
    /\ \/ /\ req \in [method : {"POST", "GET"}, params : ParamsInputs]
          /\ env \in Envs
          /\ gen = BaseGen
          /\ backend = "healthy"
       \/ /\ req \in [method : {"POST"}, params : ValidParams]
          /\ env \in {e \in Envs : e.OPENAI_API_KEY = "sk"}
          /\ gen \in GenInputs
          /\ backend = "healthy"
       \/ /\ req = [method |-> "POST", params |-> BaseParams]
          /\ env = BaseEnv
          /\ gen = BaseGen
          /\ backend = "any"
    /\ params = req.params
    /\ hpc = "recv"
    /\ HandlerIdle
    /\ retries = 0
    /\ rpc = "idle"
    /\ InvokerIdle

NextHandler ==
    \/ HandlerStart
    \/ StartAttempt
    \/ Exhausted
    \/ \E status \in Statuses : FetchResponds(status)
    \/ \E text \in Bodies : BodyArrives(text)
    \/ \E msg \in Messages : NetworkError(msg)
    \/ \E a \in timers : TimerFires(a)
    \/ SleepDone
    \/ HandlerFinish

SpecHandler == InitHandler /\ [][NextHandler]_vars

(***************************************************************************)
(* The text functions on their own: extractJSON, stripAllEndingsFrom and    *)
(* the ending placement of processModelOutput, applied to texts             *)
(***************************************************************************)

\* Objects as the generator writes them: the serialized object, and texts
\* in braces, on several lines, nested, holding a fence inside a line.
CleanPayloads ==
    { <<"{...}">>,
      <<"{", "a", "}">>,
      <<"{", "\n", " ", "a", ":", " ", "a", "\n", "}">>,
      <<"{", "a", "{", "a", "}", "}">>,
      <<"{", "a", "<fence>", "a", "}">> }

\* The payload in a fenced block with the given tag line, as it is with
\* the tag "none".
Fenced(payload, tag) ==
    CASE tag = "none" -> payload
      [] tag = "" -> <<"<fence>", "\n">> \o payload \o <<"\n", "<fence>">>
      [] OTHER -> <<"<fence>", tag, "\n">> \o payload \o <<"\n", "<fence>">>

FenceTags == {"none", "", "json", "JSON"}

\* White space around the text.
Pads == { <<>>, <<"\n">>, <<" ", "\n">> }

\* The texts handed to extractJSON, each with the payload it was made of.
ExtractInputs ==
    { [fn |-> "extractJSON", text |-> pad \o Fenced(p, tag) \o pad,
       ending |-> <<>>, payload |-> p, outs |-> <<>>] :
         p \in CleanPayloads, tag \in FenceTags, pad \in Pads }

\* The texts handed to stripAllEndingsFrom.
StripInputs ==
    { [fn |-> "stripAllEndingsFrom", text |-> t, ending |-> <<>>,
       payload |-> <<>>, outs |-> <<>>] : t \in TextsOf(MaxPieces) }

\* The jokes and chosen endings handed to the ending placement.
PlaceInputs ==
    { [fn |-> "placeEnding", text |-> t, ending |-> e, payload |-> <<>>,
       outs |-> <<>>] :
         t \in TextsOf(MaxPieces - 1), e \in {ENDINGS[1], ENDINGS[2]} }

InitStrings ==
    /\ req = [method |-> "POST", params |-> BaseParams]
    /\ params = BaseParams
    /\ env = BaseEnv
    /\ gen = BaseGen
    /\ hpc = "none"
    /\ res = <<>>
    /\ processed = NoResult
    /\ retries = 0
    /\ rpc = "idle"
    /\ backend = "healthy"
    /\ InvokerIdle
    /\ work \in ExtractInputs \cup StripInputs \cup PlaceInputs

\* extractJSON(text)
ApplyExtractJSON ==
    /\ work.fn = "extractJSON"
    /\ work.outs = <<>>
    /\ work' = [work EXCEPT !.outs = <<extractJSON(work.text)>>]
    /\ UNCHANGED <<req, params, env, gen, hpc, res, processed, rvars>>

\* stripAllEndingsFrom(text)
ApplyStripAllEndings ==
    /\ work.fn = "stripAllEndingsFrom"
    /\ work.outs = <<>>
    /\ work' = [work EXCEPT !.outs = <<stripAllEndingsFrom(work.text)>>]
    /\ UNCHANGED <<req, params, env, gen, hpc, res, processed, rvars>>

\* The ending placement, run on the text and then once more on its own
\* result, with the same ending.
ApplyPlaceEnding ==
    /\ work.fn = "placeEnding"
    /\ Len(work.outs) < 2
    /\ LET joke == IF work.outs = <<>> THEN work.text
                   ELSE work.outs[Len(work.outs)]
       IN  work' = [work EXCEPT !.outs = Append(@, placeEnding(joke, work.ending))]
    /\ UNCHANGED <<req, params, env, gen, hpc, res, processed, rvars>>

NextStrings ==
    \/ ApplyExtractJSON
    \/ ApplyStripAllEndings
    \/ ApplyPlaceEnding

SpecStrings == InitStrings /\ [][NextStrings]_vars

(***************************************************************************)
(* Properties of openaiChatWithRetry                                       *)
(***************************************************************************)

\* The last ended attempt.
LastObs == obs[Len(obs)]

\* The statuses named as transient: 429 and 500 to 504.
TransientStatus(status) == status = 429 \/ (status >= 500 /\ status <= 504)

\* HTTP 429 or any 5xx status, 500 to 599.
Status429Or5xx(status) == status = 429 \/ (status >= 500 /\ status <= 599)

\* The first n ended attempts were all answered with a transient status.
AllTransient(n) ==
    \A i \in 1..n : obs[i].kind = "http" /\ TransientStatus(obs[i].status)

\* The first n ended attempts were all answered with 429 or a 5xx status.
All429Or5xx(n) ==
    \A i \in 1..n : obs[i].kind = "http" /\ Status429Or5xx(obs[i].status)

C6_RetryThenSuccess ==
    /\ (obs # <<>> /\ All429Or5xx(Len(obs)) /\ Len(obs) <= retries)
          => rpc # "done"
    /\ (/\ rpc = "done"
        /\ obs # <<>>
        /\ LastObs.kind = "http" /\ Ok(LastObs.status)
        /\ JSONParse(lastText) # "throw"
        /\ All429Or5xx(Len(obs) - 1))
          => (ret.ok /\ ret.json = JSONParse(lastText) /\ calls = Len(obs))

\* C7: an attempt that ends with HTTP 429, with a 5xx status (500..599) or
\* with a timeout, while attempts remain, does not make the function
\* return: it sleeps and goes on to another attempt.
C7_RetryableIsRetried ==
    (/\ obs # <<>>
     /\ Len(obs) <= retries
     /\ calls = Len(obs)
     /\ \/ LastObs.kind = "timeout"
        \/ LastObs.kind = "http" /\ Status429Or5xx(LastObs.status))
       => rpc \in {"sleep", "loop"}

\* C8: under fairness openaiChatWithRetry eventually returns, whatever the
\* backend does.
C8_EventuallyReturns == <>(rpc = "done")

\* What a failed result carries for the way the last attempt ended.
Carried ==
    CASE LastObs.kind = "http" -> Failed(LastObs.status, lastText)
      [] LastObs.kind = "timeout" -> Failed(504, <<"Upstream timeout">>)
      [] LastObs.kind = "neterr" -> Failed(504, ErrorMessage(lastText))

\* C9: a failed result returned after the attempts are exhausted carries
\* the status and body, or the timeout or network diagnostic, of the last
\* attempt.
C9_FailedCarriesLastAttempt ==
    (/\ rpc = "done"
     /\ ~ret.ok
     /\ Len(obs) = retries + 1
     /\ ~(LastObs.kind = "http" /\ Ok(LastObs.status)))
       => ret = Carried

\* C10: at most one network call is in flight and it is the current
\* attempt's; between attempts (sleeping, at the loop test, returned) no
\* call is in flight and no timer is armed; a timer is armed only for the
\* current attempt while its fetch is pending, and a timer has only ever
\* aborted the call of its own attempt.
C10_AttemptsAreSequential ==
    /\ Cardinality(inflight) <= 1
    /\ inflight \subseteq {attempt}
    /\ timers \subseteq {attempt}
    /\ timers # {} => rpc = "fetch"
    /\ rpc \in {"loop", "sleep", "done"} => (inflight = {} /\ timers = {})
    /\ \A p \in aborts : p[1] = p[2]

\* C10, its case: the first attempt was aborted by its timer and the second
\* attempt's call is now in flight, with its own timer.
C10_Witness ==
    /\ attempt = 1
    /\ rpc = "fetch"
    /\ obs = <<[kind |-> "timeout", status |-> 0]>>
    /\ aborts = {<<0, 0>>}
    /\ inflight = {1}
    /\ timers = {1}

\* C21: a backoff wait happens only between two attempts: whenever the
\* function waits, after an HTTP failure, a network error or a timeout,
\* attempts remain; it never waits after its final attempt.
C21_WaitsOnlyBetweenAttempts ==
    rpc = "sleep" => attempt < retries

\* C22: the wait after the n-th failed attempt is 300 * n milliseconds, and
\* each wait is followed by an attempt with the attempt counter one higher:
\* during the n-th wait n attempts have ended and the counter is n - 1,
\* after it the counter is n and the loop test lets the next attempt start.
C22_LinearBackoff ==
    /\ \A n \in 1..Len(delays) : delays[n] = 300 * n
    /\ rpc = "sleep" =>
          /\ Len(delays) = Len(obs)
          /\ attempt = Len(delays) - 1
    /\ rpc = "loop" =>
          /\ attempt = Len(delays)
          /\ Len(delays) > 0 => attempt <= retries

\* The last attempt was answered 2xx with a body that is no JSON.
NonJSONAnswer ==
    /\ obs # <<>>
    /\ LastObs.kind = "http"
    /\ LastObs.status \in 200..299
    /\ JSONParse(lastText) = "throw"

\* C26: a 2xx answer whose body is no JSON makes the function fail at once
\* with status 502 and body 'Non-JSON upstream body': it has returned, with
\* attempts remaining or not, without a wait after that answer and without
\* another call.
C26_NonJSONFailsAtOnce ==
    NonJSONAnswer =>
        /\ rpc = "done"
        /\ ~ret.ok
        /\ ret.status = 502
        /\ ret.body = <<"Non-JSON upstream body">>
        /\ calls = Len(obs)
        /\ Len(delays) = Len(obs) - 1

\* C26, its case: the first answer, with two attempts remaining, is a 200
\* with an HTML body.
C26_Witness ==
    /\ NonJSONAnswer
    /\ retries = 2
    /\ Len(obs) = 1
    /\ lastText = <<"<html>">>
    /\ rpc = "done"

\* C27: when the function has returned after a final attempt that ended
\* with a timeout, the result is failed with status 504 and body 'Upstream
\* timeout'; after a final attempt that ended with another network error,
\* it is failed with status 504 and that error's message ('Network error'
\* for an error without message).
C27_FinalTimeoutIsUpstreamTimeout ==
    (rpc = "done" /\ obs # <<>>) =>
        /\ LastObs.kind = "timeout" =>
              /\ ~ret.ok
              /\ ret.status = 504
              /\ ret.body = <<"Upstream timeout">>
        /\ LastObs.kind = "neterr" =>
              /\ ~ret.ok
              /\ ret.status = 504
              /\ ret.body = (IF lastText = <<>> THEN <<"Network error">>
                             ELSE lastText)

(***************************************************************************)
(* Properties of processModelOutput                                        *)
(***************************************************************************)

\* The position of the terminal occurrence of ending in joke.
TerminalPos(joke, ending) == Len(joke) - Len(ending) + 1

\* C1: in the joke of the artifact processModelOutput returns, no catalog
\* entry occurs anywhere but at the single terminal occurrence of
\* ending_phrase.
C1_OnlyTerminalEnding ==
    processed.ok =>
        \A i \in 1..Len(ENDINGS) :
            \A pos \in Occurrences(processed.obj.joke, ENDINGS[i]) :
                /\ ENDINGS[i] = processed.obj.ending_phrase
                /\ pos = TerminalPos(processed.obj.joke, ENDINGS[i])

\* C2: the joke of a successful result ends with ending_phrase, and
\* ending_phrase occurs exactly once in it.
C2_EndsOnceWithEndingPhrase ==
    processed.ok =>
        /\ EndsWith(processed.obj.joke, processed.obj.ending_phrase)
        /\ Cardinality(Occurrences(processed.obj.joke,
                                   processed.obj.ending_phrase)) = 1

\* The catalog as a set.
EndingCatalog == {ENDINGS[i] : i \in 1..Len(ENDINGS)}

\* The artifacts sent with status 200.
Artifacts == {res[i].body.artifact : i \in {k \in 1..Len(res) : res[k].status = 200}}

\* C3: the ending_phrase of every successful artifact, of the pipeline or of
\* the stub mode, is one of the six catalog entries.
C3_EndingPhraseInCatalog ==
    /\ Len(ENDINGS) = 6
    /\ processed.ok => processed.obj.ending_phrase \in EndingCatalog
    /\ \A a \in Artifacts : a.ending_phrase \in EndingCatalog

\* C3, its case: the generator's ending_phrase was no string, or a string
\* outside the catalog, and the joke did not end with a catalog entry; the
\* artifact was sent.
C3_Witness ==
    /\ hpc = "sent"
    /\ processed.ok
    /\ Artifacts # {}
    /\ gen.obj.ending_phrase.t = "number"
    /\ tailEnding(gen.obj.joke.v) = 0
    /\ req.params.tone = "Dry"

\* The length a request asks for: "medium" when it has none.
RequestedLength == IF req.params.length = "" THEN "medium" ELSE req.params.length

\* C4: scenario, roles, tone and length of every successful artifact are
\* those of the request, length being "medium" when the request has none.
C4_FieldsAreTheRequests ==
    \A a \in Artifacts \cup (IF processed.ok THEN {processed.obj} ELSE {}) :
        /\ a.scenario = req.params.scenario
        /\ a.roles = req.params.roles
        /\ a.tone = req.params.tone
        /\ a.length = RequestedLength

\* C4, its case: the request has no length, the generator echoed other
\* values in all four fields, and the pipeline's artifact was sent.
C4_Witness ==
    /\ hpc = "sent"
    /\ env.USE_STUB = ""
    /\ processed.ok
    /\ Artifacts # {}
    /\ req.params.length = ""
    /\ gen.obj.scenario # req.params.scenario
    /\ gen.obj.roles # req.params.roles
    /\ gen.obj.tone # req.params.tone
    /\ gen.obj.length # RequestedLength

(***************************************************************************)
(* Properties of handler                                                   *)
(***************************************************************************)

\* The checks of a request in their order: params present, scenario present,
\* roles an array of 1 to 2 elements, tone present.
ChecksPassed(p) ==
    << p.present,
       p.present /\ p.scenario # "",
       p.present /\ p.roles.arr /\ Len(p.roles.items) \in 1..2,
       p.present /\ p.tone # "" >>

\* The first check that p fails, 0 when it passes them all.
FirstFailedCheck(p) ==
    LET failed == {i \in 1..4 : ~ChecksPassed(p)[i]}
    IN  IF failed = {} THEN 0 ELSE CHOOSE i \in failed : \A k \in failed : i <= k

\* The messages of the four checks.
CheckMessages ==
    <<"Missing params", "Missing scenario", "Roles must be 1-2", "Missing tone">>

\* C11: a POST request that fails validation is answered 400 with the
\* message of the first failed check, and only that; no upstream call is
\* made for it and nothing waits or is retried.
C11_InvalidRequestIs400 ==
    (req.method = "POST" /\ FirstFailedCheck(req.params) # 0) =>
        /\ calls = 0 /\ rpc = "idle" /\ inflight = {} /\ timers = {}
        /\ delays = <<>>
        /\ hpc \in {"recv", "sent"}
        /\ hpc = "recv" => res = <<>>
        /\ hpc = "sent" =>
              /\ Len(res) = 1
              /\ res[1].status = 400
              /\ res[1].body.has = {"error"}
              /\ res[1].body.error =
                    <<CheckMessages[FirstFailedCheck(req.params)]>>

\* C11, its case: a request that fails two checks, scenario and tone, has
\* been answered.
C11_Witness ==
    /\ hpc = "sent"
    /\ req.method = "POST"
    /\ req.params.present
    /\ req.params.scenario = ""
    /\ req.params.tone = ""
    /\ res[1].status = 400

\* The generator's text breaks the contract: it holds no object (nothing
\* parseable, or a value that is no object or has no keys), or its object
\* lacks a key, has a joke that is no string or is blank, or roles that are
\* no array of 1 to 2 elements.
BreaksContract(g) ==
    \/ \A i \in 1..Len(g.toks) : g.toks[i] # "{...}"
    \/ g.obj.has # AllKeys
    \/ g.obj.joke.t # "string"
    \/ \A i \in 1..Len(g.obj.joke.v) : g.obj.joke.v[i] \in Space
    \/ ~g.obj.roles.arr
    \/ Len(g.obj.roles.items) \notin 1..2

\* The upstream call has returned the generator's text to handler, which
\* has answered.
PipelineAnswered ==
    /\ hpc = "sent"
    /\ rpc = "done"
    /\ ret.ok
    /\ ret.json = "{completion}"

C12_ContractFailureIsTerminal ==
    /\ [](PipelineAnswered /\ BreaksContract(gen) =>
             /\ ~processed.ok
             /\ processed.error # <<>>
             /\ Len(res) = 1
             /\ res[1].status = 422
             /\ res[1].body.has = {"error", "raw"}
             /\ res[1].body.error = processed.error
             /\ res[1].body.raw = Trim(gen.toks)
             /\ calls = 1)
    /\ [][hpc = "sent" => (calls' = calls /\ res' = res /\ inflight' = {})]_vars

\* C12, its case: the generator's object has no joke key, and handler has
\* answered 422.
C12_Witness ==
    /\ PipelineAnswered
    /\ "joke" \notin gen.obj.has
    /\ res[1].status = 422
    /\ res[1].body.error = <<"Missing key: ", "joke">>

\* openaiChatWithRetry has returned a failed result to handler, which has
\* answered.
UpstreamFailed ==
    /\ hpc = "sent"
    /\ rpc = "done"
    /\ ~ret.ok

\* C13: when openaiChatWithRetry returns failed with status s and body b,
\* handler's only response has HTTP status s (502 when there is none) and
\* the body error 'Upstream error', detail b ('No response body' when b is
\* empty), status s; it is never a 200.
C13_UpstreamFailureResponse ==
    UpstreamFailed =>
        LET s == IF ret.status = 0 THEN 502 ELSE ret.status
        IN  /\ Len(res) = 1
            /\ res[1].status = s
            /\ res[1].status # 200
            /\ res[1].body.has = {"error", "detail", "status"}
            /\ res[1].body.error = <<"Upstream error">>
            /\ res[1].body.detail =
                  (IF ret.body = <<>> THEN <<"No response body">> ELSE ret.body)
            /\ res[1].body.status = s
            /\ ~processed.ok

\* C13, its case: the upstream answered 404 with an empty body, and handler
\* has answered.
C13_Witness ==
    /\ UpstreamFailed
    /\ ret.status = 404
    /\ ret.body = <<>>
    /\ res[1].status = 404

\* C14: in stub mode no upstream call is made, with or without a
\* credential; a request that is no POST is answered 405, a POST that fails
\* validation 400, and every valid POST 200 with an artifact built from the
\* request, whose ending_phrase is a catalog entry the joke ends with.
C14_StubBypassesUpstream ==
    env.USE_STUB = "1" =>
        /\ calls = 0 /\ rpc = "idle" /\ inflight = {} /\ timers = {}
        /\ hpc \in {"recv", "sent"}
        /\ hpc = "sent" =>
              /\ Len(res) = 1
              /\ IF req.method # "POST" THEN res[1].status = 405
                 ELSE IF FirstFailedCheck(req.params) # 0 THEN res[1].status = 400
                 ELSE LET a == res[1].body.artifact
                      IN  /\ res[1].status = 200
                          /\ a.scenario = req.params.scenario
                          /\ a.roles = req.params.roles
                          /\ a.tone = req.params.tone
                          /\ a.length = RequestedLength
                          /\ a.ending_phrase \in EndingCatalog
                          /\ EndsWith(a.joke, a.ending_phrase)
                          /\ Includes(a.joke, <<req.params.scenario>>)
                          /\ \A i \in 1..Len(a.roles.items) :
                                Includes(a.joke, <<a.roles.items[i]>>)

\* C14, its case: stub mode without a credential, a valid request with two
\* roles, answered 200.
C14_Witness ==
    /\ env.USE_STUB = "1"
    /\ env.OPENAI_API_KEY = ""
    /\ hpc = "sent"
    /\ req.method = "POST"
    /\ Len(req.params.roles.items) = 2
    /\ res[1].status = 200

\* The generator's object is sound but for its tags: they are missing, or
\* no array.
SoundButForTags(g) ==
    /\ \E i \in 1..Len(g.toks) : g.toks[i] = "{...}"
    /\ AllKeys \ {"tags"} \subseteq g.obj.has
    /\ g.obj.joke.t = "string"
    /\ \E i \in 1..Len(g.obj.joke.v) : g.obj.joke.v[i] \notin Space
    /\ g.obj.roles.arr
    /\ Len(g.obj.roles.items) \in 1..2
    /\ "tags" \notin g.obj.has \/ ~g.obj.tags.arr

\* C23: when the generator's object has no tags key, or tags that are no
\* array, the call does not fail: the artifact is returned with tags an
\* empty sequence.
C23_TagsAreNormalized ==
    (PipelineAnswered /\ SoundButForTags(gen)) =>
        /\ processed.ok
        /\ processed.obj.tags = [arr |-> TRUE, items |-> <<>>]
        /\ res[1].status = 200

\* The status of the response on each path of handler, once it has answered.
PathStatus ==
    IF req.method # "POST" THEN 405
    ELSE IF FirstFailedCheck(req.params) # 0 THEN 400
    ELSE IF env.USE_STUB = "1" THEN 200
    ELSE IF env.OPENAI_API_KEY = "" THEN 500
    ELSE IF ~ret.ok THEN ret.status
    ELSE IF ret.json = "{completion:42}" THEN 500
    ELSE IF processed.ok THEN 200
    ELSE 422

\* C25: handler sends exactly one response on every path: none before it
\* has answered, one when it has, with the status of the path taken (405,
\* 400, the stub's 200, 500 without credential, the upstream's status, 500
\* for an exception, 422, 200); a 200 carries an artifact with the seven
\* keys.
C25_ExactlyOneResponse ==
    /\ hpc \in {"recv", "await"} => res = <<>>
    /\ hpc = "sent" =>
          /\ Len(res) = 1
          /\ res[1].status = PathStatus
          /\ res[1].status = 200 =>
                /\ res[1].body.has = AllKeys
                /\ Cardinality(res[1].body.has) = 7
                /\ res[1].body.artifact.joke # <<>>
                /\ res[1].body.artifact.tags.arr
          /\ res[1].status # 200 => "error" \in res[1].body.has

\* C25, its case: the completion's content was no string, handler caught
\* the TypeError and has answered 500.
C25_Witness ==
    /\ hpc = "sent"
    /\ ret.ok
    /\ ret.json = "{completion:42}"
    /\ Len(res) = 1
    /\ res[1].status = 500

(***************************************************************************)
(* Properties of the ending enforcement                                    *)
(***************************************************************************)

\* The generator's object is clean: its ending_phrase is a catalog entry
\* (the one the request's tone forces, when it forces one), its joke ends
\* with that entry and holds no other occurrence of a catalog entry.
CleanObject ==
    /\ gen.toks = <<"{...}">>
    /\ gen.obj.ending_phrase.t = "string"
    /\ gen.obj.ending_phrase.v \in EndingCatalog
    /\ req.params.tone = "Zizek" => gen.obj.ending_phrase.v = ENDINGS[1]
    /\ EndsWith(gen.obj.joke.v, gen.obj.ending_phrase.v)
    /\ \A i \in 1..Len(ENDINGS) :
          \A pos \in Occurrences(gen.obj.joke.v, ENDINGS[i]) :
              /\ ENDINGS[i] = gen.obj.ending_phrase.v
              /\ pos = TerminalPos(gen.obj.joke.v, ENDINGS[i])

ClaimedEnding ==
    IF gen.obj.ending_phrase.t = "string" THEN Trim(gen.obj.ending_phrase.v)
    ELSE <<>>

\* C17: when the request's tone is Zizek, the ending_phrase of the artifact
\* processModelOutput returns is the first catalog entry, whatever the
\* generator claimed and whatever the joke is; the tone the generator
\* echoed decides nothing: with another tone in the request and Zizek
\* echoed, a claimed catalog entry is kept.
C17_ZizekForcesFirstEnding ==
    processed.ok =>
        /\ req.params.tone = "Zizek" =>
              /\ processed.obj.ending_phrase = ENDINGS[1]
              /\ hpc = "sent" => res[1].body.artifact.ending_phrase = ENDINGS[1]
        /\ (req.params.tone # "Zizek" /\ gen.obj.tone = "Zizek"
               /\ ClaimedEnding \in EndingCatalog) =>
              processed.obj.ending_phrase = ClaimedEnding

\* C17, its case: the request's tone is Zizek, the generator echoed another
\* tone, claimed the second catalog entry and ended the joke with it.
C17_Witness ==
    /\ processed.ok
    /\ hpc = "sent"
    /\ req.params.tone = "Zizek"
    /\ gen.obj.tone = "Dry"
    /\ ClaimedEnding = ENDINGS[2]
    /\ EndsWith(gen.obj.joke.v, ENDINGS[2])
    /\ processed.obj.ending_phrase = ENDINGS[1]

\* The catalog entries the generator's joke ends with, as given and after
\* its trailing white space is dropped.
TailEntries == {e \in EndingCatalog : EndsWith(gen.obj.joke.v, e)}
TrimmedTailEntries == {e \in EndingCatalog : EndsWith(TrimEnd(gen.obj.joke.v), e)}

\* The artifact of a tone without forced ending.
UnforcedArtifact ==
    /\ processed.ok
    /\ req.params.tone # "Zizek"

\* C18 as stated: for a tone without forced ending the chosen ending is the
\* claimed ending_phrase if that value is a catalog entry; otherwise the
\* catalog entry the joke ends with, if there is one; otherwise some
\* catalog entry.
C18_EndingSelectionOrder ==
    UnforcedArtifact =>
        IF gen.obj.ending_phrase.t = "string"
              /\ gen.obj.ending_phrase.v \in EndingCatalog
        THEN processed.obj.ending_phrase = gen.obj.ending_phrase.v
        ELSE IF TailEntries # {}
        THEN processed.obj.ending_phrase \in TailEntries
        ELSE processed.obj.ending_phrase \in EndingCatalog

\* C18 amended: the claimed ending_phrase is compared after the white space
\* around it is dropped (and the joke's tail after its trailing white space
\* is dropped): the chosen ending is the trimmed claim if that is a catalog
\* entry; otherwise the entry the trimmed joke ends with, if there is one;
\* otherwise some catalog entry.
C18_EndingSelectionOrderTrimmed ==
    UnforcedArtifact =>
        IF ClaimedEnding \in EndingCatalog
        THEN processed.obj.ending_phrase = ClaimedEnding
        ELSE IF TrimmedTailEntries # {}
        THEN processed.obj.ending_phrase \in TrimmedTailEntries
        ELSE processed.obj.ending_phrase \in EndingCatalog

\* C18, its case: the claim is no catalog entry and the joke ends with the
\* second entry, which is chosen.
C18_Witness ==
    /\ UnforcedArtifact
    /\ ClaimedEnding \notin EndingCatalog
    /\ TrimmedTailEntries = {ENDINGS[2]}
    /\ processed.obj.ending_phrase = ENDINGS[2]

\* The separators the appended ending may follow: a newline when the
\* stripped text holds one, a dash when the text holds none at all.
AppendSeparators(joke) ==
    (IF Includes(StripTail(joke), <<"\n">>) THEN {NewlineSep} ELSE {}) \cup
    (IF ~Includes(joke, <<"\n">>) THEN {DashSep} ELSE {}) \cup
    (IF Includes(joke, <<"\n">>) /\ ~Includes(StripTail(joke), <<"\n">>)
     THEN {NewlineSep, DashSep} ELSE {})

\* C19: when the chosen ending does not occur in the generator's joke, the
\* artifact's joke is that text without its trailing white space and
\* punctuation, then a separator, then the chosen ending; the separator is
\* a newline if the text holds a newline, a dash otherwise.
C19_AbsentEndingIsAppended ==
    (processed.ok
        /\ ~Includes(gen.obj.joke.v, processed.obj.ending_phrase)) =>
        \E sep \in AppendSeparators(gen.obj.joke.v) :
            processed.obj.joke =
                StripTail(gen.obj.joke.v) \o sep \o processed.obj.ending_phrase

\* What processModelOutput can return for the generator's text and the
\* request, over everything Math.random() can draw.
PossibleResults ==
    { processModelOutput(contentOf(ret.json), params, r) :
         r \in 1..Len(ENDINGS) }

\* The random fallback is not needed: the tone is Zizek, or the claimed
\* ending_phrase is a catalog entry, or the joke ends with a catalog entry.
FallbackNotNeeded ==
    \/ req.params.tone = "Zizek"
    \/ gen.obj.ending_phrase.t = "string"
          /\ gen.obj.ending_phrase.v \in EndingCatalog
    \/ TailEntries # {}

\* C29: when the random fallback is not needed, every run of
\* processModelOutput on the same text and request returns the same
\* artifact: the result does not depend on the random draw, and the result
\* handler got is that one; runs differ only when none of the three
\* conditions holds.
C29_DeterministicWithoutFallback ==
    (hpc = "sent" /\ processed.ok) =>
        /\ processed \in PossibleResults
        /\ FallbackNotNeeded => PossibleResults = {processed}
        /\ Cardinality(PossibleResults) > 1 => ~FallbackNotNeeded

\* C29, its case: the claim is no catalog entry, the joke ends with the
\* first entry, the tone forces nothing, and the artifact was returned.
C29_Witness ==
    /\ hpc = "sent"
    /\ processed.ok
    /\ req.params.tone = "Dry"
    /\ gen.obj.ending_phrase.t = "number"
    /\ TailEntries = {ENDINGS[1]}
    /\ PossibleResults = {processed}

RECURSIVE IsSubsequence(_, _)
\* a is what is left of b when some of b's characters are removed.
IsSubsequence(a, b) ==
    IF a = <<>> THEN TRUE
    ELSE IF b = <<>> THEN FALSE
    ELSE IF Head(a) = Head(b) THEN IsSubsequence(Tail(a), Tail(b))
    ELSE IsSubsequence(a, Tail(b))

\* The generator's text before the last occurrence of the ending e.
TextBeforeLast(e) ==
    LET occ == Occurrences(gen.obj.joke.v, e)
        last == CHOOSE i \in occ : \A k \in occ : k <= i
    IN  SubSeq(gen.obj.joke.v, 1, last - 1)

\* out is head, a separator, the ending e, where head is what removals
\* leave of the text before, holds no catalog entry and has no trailing
\* white space or punctuation.
Reattached(out, before, e) ==
    \E sep \in {DashSep, NewlineSep} :
        LET n == Len(out) - Len(e) - Len(sep)
            head == SubSeq(out, 1, n)
        IN  /\ n >= 0
            /\ out = head \o sep \o e
            /\ IsSubsequence(head, before)
            /\ \A i \in 1..Len(ENDINGS) : ~Includes(head, ENDINGS[i])
            /\ StripTail(head) = head

\* C20: when the chosen ending occurs in the generator's joke, the
\* artifact's joke is made of the text before the last occurrence, with
\* every catalog entry removed from it and its trailing white space and
\* punctuation stripped, then a separator, then the chosen ending:
\* nothing after the last occurrence is kept and no catalog entry is left
\* before the final one.
C20_PresentEndingIsReattached ==
    (processed.ok /\ Includes(gen.obj.joke.v, processed.obj.ending_phrase)) =>
        Reattached(processed.obj.joke,
                   TextBeforeLast(processed.obj.ending_phrase),
                   processed.obj.ending_phrase)

(***************************************************************************)
(* Properties of the text functions                                        *)
(***************************************************************************)

\* C24: extractJSON returns a clean object, a text from '{' to '}', as it
\* is, and returns the same for that object wrapped in a fenced block, with
\* or without the json tag.
C24_ExtractJSONKeepsCleanObjects ==
    (work.fn = "extractJSON" /\ work.outs # <<>>) =>
        work.outs[1] = work.payload

\* C24, its case: an object on several lines in a block fenced with the
\* json tag has been extracted.
C24_Witness ==
    /\ work.fn = "extractJSON"
    /\ work.outs # <<>>
    /\ StartsWith(work.text, <<"<fence>", "json", "\n", "{", "\n">>)
    /\ Includes(work.payload, <<"\n">>)

\* C28: the ending placement is idempotent: run on a joke it has itself
\* produced, with the ending it has placed, it returns that joke again.
C28_PlacementIsIdempotent ==
    (work.fn = "placeEnding" /\ Len(work.outs) = 2) =>
        work.outs[2] = work.outs[1]

\* C30: the result of stripAllEndingsFrom holds no occurrence of any catalog
\* entry, also when removing one entry joins the text around it into
\* another entry.
C30_StripLeavesNoEnding ==
    (work.fn = "stripAllEndingsFrom" /\ work.outs # <<>>) =>
        \A i \in 1..Len(ENDINGS) : ~Includes(work.outs[1], ENDINGS[i])

====
